---- MODULE Spec2Model ----
(***************************************************************************)
(* Model of mhkit/loads/extreme.py: the extreme-value statistics pipeline. *)
(*                                                                         *)
(* Every function of the module is a synchronous call.  A call is modelled *)
(* as a small state machine over one record variable per function family;  *)
(* Init draws the call's arguments from bounded sets and the actions are   *)
(* the steps of the function's body.  Python indices are kept 0-based:     *)
(* At(s, i) reads s[i].  Real numbers are exact rationals, kept as         *)
(* integers over a stated common denominator.                              *)
(***************************************************************************)
EXTENDS Integers, Sequences, FiniteSets, TLC

VARIABLES gp, pot, aht, stx, dist, lt, bm, val, ryv, mler

vars == <<gp, pot, aht, stx, dist, lt, bm, val, ryv, mler>>

(***************************************************************************)
(* Bounds of the model.                                                    *)
(***************************************************************************)
MaxLen == 5      \* longest signal handed to global_peaks
MaxVal == 2      \* signal samples range over -MaxVal..MaxVal

(***************************************************************************)
(* Generic helpers.                                                        *)
(***************************************************************************)
At(s, i) == s[i + 1]

Idx(s) == 0 .. (Len(s) - 1)

Abs(x) == IF x < 0 THEN -x ELSE x

SetMax(S) == CHOOSE m \in S : \A y \in S : y <= m

SetMin(S) == CHOOSE m \in S : \A y \in S : m <= y

SeqsUpTo(S, lo, hi) == UNION {[1 .. n -> S] : n \in lo .. hi}

\* The increasing enumeration of a finite set of integers.
RECURSIVE SortedSeq(_)
SortedSeq(S) ==
    IF S = {} THEN <<>>
    ELSE LET m == SetMin(S) IN <<m>> \o SortedSeq(S \ {m})

(***************************************************************************)
(* global_peaks(t, data)                                                   *)
(***************************************************************************)

\* mhkit.utils.upcrossing: the indices where data goes from <= 0 to > 0,
\* each the index of the sample after the crossing, in increasing order.
upcrossing(data) ==
    SortedSeq({i \in Idx(data) : i >= 1 /\ At(data, i - 1) <= 0 /\ At(data, i) > 0})

\* inds = np.append(upcrossing(t, data), len(data)-1)
gp_inds_extra0(data) == <<0>> \o Append(upcrossing(data), Len(data) - 1)

gp_inds(data) == Append(upcrossing(data), Len(data) - 1)

\* the slice taken with its end included
gp_func_inclusive(data, ind1, ind2) ==
    IF ind1 > ind2 THEN -1
    ELSE LET sl == ind1 .. ind2
             mx == SetMax({At(data, i) : i \in sl})
         IN  SetMin({i \in sl : At(data, i) = mx})

\* the last index of the largest sample of the slice instead of the first
gp_func_last(data, ind1, ind2) ==
    IF ind1 >= ind2 THEN -1
    ELSE LET sl == ind1 .. (ind2 - 1)
             mx == SetMax({At(data, i) : i \in sl})
         IN  SetMax({i \in sl : At(data, i) = mx})

\* np.argmax(data[ind1:ind2]) + ind1: the first index of the largest sample
\* of the slice; -1 stands for the ValueError numpy raises on an empty slice.
gp_func(data, ind1, ind2) ==
    IF ind1 >= ind2 THEN -1
    ELSE LET sl == ind1 .. (ind2 - 1)
             mx == SetMax({At(data, i) : i \in sl})
         IN  SetMin({i \in sl : At(data, i) = mx})

\* mhkit.utils.custom: func applied to each pair of consecutive entries of inds.
custom(data, inds) ==
    [k \in 1 .. (Len(inds) - 1) |-> gp_func(data, inds[k], inds[k + 1])]

Signals == SeqsUpTo(-MaxVal .. MaxVal, 1, MaxLen)

\* A strictly increasing time axis of n samples.
TimeAxis(t0, dt, n) == [i \in 1 .. n |-> t0 + dt * (i - 1)]

GPIdle == [pc |-> "idle"]

GPInit ==
    \E data \in Signals, t0 \in {0, 3}, dt \in {1, 2} :
        gp = [pc |-> "start", t |-> TimeAxis(t0, dt, Len(data)), data |-> data,
              inds |-> <<>>, k |-> 0, peak_inds |-> <<>>,
              t_peaks |-> <<>>, peaks |-> <<>>, err |-> "none"]

\* lines 66-69: find the up-crossings and append the final index.
GP_Upcrossing ==
    /\ gp.pc = "start"
    /\ gp' = [gp EXCEPT !.pc = "loop", !.inds = gp_inds(gp.data)]
    /\ UNCHANGED <<pot, aht, stx, dist, lt, bm, val, ryv, mler>>

\* lines 77-79: custom applies func to the k-th pair of consecutive indices.
GP_Func ==
    /\ gp.pc = "loop"
    /\ gp.k < Len(custom(gp.data, gp.inds))
    /\ LET p == At(custom(gp.data, gp.inds), gp.k)
       IN  IF p < 0
           THEN gp' = [gp EXCEPT !.pc = "raised", !.err = "ValueError"]
           ELSE gp' = [gp EXCEPT !.k = @ + 1, !.peak_inds = Append(@, p)]
    /\ UNCHANGED <<pot, aht, stx, dist, lt, bm, val, ryv, mler>>

\* line 81: return t[peak_inds], data[peak_inds]
GP_Return ==
    /\ gp.pc = "loop"
    /\ gp.k >= Len(custom(gp.data, gp.inds))
    /\ gp' = [gp EXCEPT !.pc = "done",
                        !.t_peaks = [j \in 1 .. Len(gp.peak_inds) |->
                                        At(gp.t, gp.peak_inds[j])],
                        !.peaks = [j \in 1 .. Len(gp.peak_inds) |->
                                        At(gp.data, gp.peak_inds[j])]]
    /\ UNCHANGED <<pot, aht, stx, dist, lt, bm, val, ryv, mler>>

GPNext == GP_Upcrossing \/ GP_Func \/ GP_Return

\* global_peaks as a function of data: the peak indices, or the error raised.
global_peaks(data) ==
    LET pk == custom(data, gp_inds(data))
    IN  IF \E k \in 1 .. Len(pk) : pk[k] < 0
        THEN [err |-> "ValueError", peak_inds |-> <<>>]
        ELSE [err |-> "none", peak_inds |-> pk]

(***************************************************************************)
(* _peaks_over_threshold(peaks, threshold, sampling_rate)                  *)
(*                                                                         *)
(* threshold is the fraction thr/den.  threshold_unit and the exceedances  *)
(* are kept multiplied by Scale(den) = 2*den, which makes the Hazen        *)
(* interpolation exact in integers.                                        *)
(***************************************************************************)
MaxBody == 4     \* longest free part of a peaks series
MaxPeak == 2     \* peak values of the free part range over -1..MaxPeak
PadLen == 3      \* length of the calm stretch that may precede the free part

Scale(den) == 2 * den

RECURSIVE Insert(_, _)
Insert(x, s) ==
    IF s = <<>> THEN <<x>>
    ELSE IF x <= Head(s) THEN <<x>> \o s
    ELSE <<Head(s)>> \o Insert(x, Tail(s))

RECURSIVE Sort(_)
Sort(s) == IF s = <<>> THEN <<>> ELSE Insert(Head(s), Sort(Tail(s)))

\* np.percentile raises ValueError unless 0 <= 100*thr/den <= 100.
percentile_ok(thr, den) == 0 <= thr /\ thr <= den

\* np.percentile(peaks, 100*thr/den, method='hazen'), times Scale(den): the
\* virtual index thr/den*n - 1/2 is clipped to [0, n-1] and the two
\* neighbouring order statistics are interpolated linearly.
hazen(peaks, thr, den) ==
    LET x == Sort(peaks)
        n == Len(peaks)
        v == 2 * thr * n - den          \* the virtual index, times 2*den
        sc == Scale(den)
    IN  IF v >= sc * (n - 1) THEN sc * At(x, n - 1)
        ELSE IF v < 0 THEN sc * At(x, 0)
        ELSE LET f == v \div sc
             IN  sc * At(x, f) + (v - sc * f) * (At(x, f + 1) - At(x, f))

\* peaks - threshold_unit, times Scale(den)
exceedance(peaks, tu, den) == [j \in 1 .. Len(peaks) |-> Scale(den) * peaks[j] - tu]

RECURSIVE SumTo(_, _)
SumTo(f, n) == IF n = 0 THEN 0 ELSE f[n] + SumTo(f, n - 1)

\* signal.correlate(x, x) at a lag >= 0 for x = peaks - mean(peaks), times n^2
acf(peaks, lag) ==
    LET n == Len(peaks)
        sm == SumTo(peaks, n)
        x == [j \in 1 .. n |-> n * peaks[j] - sm]
    IN  SumTo([j \in 1 .. (n - lag) |-> x[j] * x[j + lag]], n - lag)

\* nlags = int(14 * 24 / sampling_rate)
nlags(sampling_rate) == (14 * 24) \div sampling_rate

\* the selection with the last lag as a fallback when it is empty
lags_below_half_or_last(peaks, sampling_rate) ==
    LET below == {l \in 0 .. nlags(sampling_rate) :
                    /\ l <= Len(peaks) - 1
                    /\ acf(peaks, 0) > 0
                    /\ 2 * acf(peaks, l) < acf(peaks, 0)}
    IN  IF below = {} THEN {nlags(sampling_rate)} ELSE below

\* positive_lag[acf_positive < 0.5]: the lags 0..nlags the series has, whose
\* autocorrelation over that of lag 0 is below one half (0/0 is below nothing)
lags_below_half(peaks, sampling_rate) ==
    {l \in 0 .. nlags(sampling_rate) :
        /\ l <= Len(peaks) - 1
        /\ acf(peaks, 0) > 0
        /\ 2 * acf(peaks, l) < acf(peaks, 0)}

\* window = sampling_rate * positive_lag[...][0] / sampling_rate
window_of(peaks, sampling_rate) ==
    (sampling_rate * SetMin(lags_below_half(peaks, sampling_rate))) \div sampling_rate

Last(s) == s[Len(s)]

SetLast(s, x) == [s EXCEPT ![Len(s)] = x]

\* the merge loop with every storm peak appended, whatever the window
merge_step_append_all(kept, kept_idx, idx, peaks, tu, den, window) ==
    <<Append(kept, Scale(den) * At(peaks, idx) - tu), Append(kept_idx, idx)>>

\* lines 32-37, one iteration of the merge loop on storm peak idx: the kept
\* (values, indices) after it.  peaks[idx] is compared as the code compares
\* it: the raw peak against the kept exceedance.
merge_step(kept, kept_idx, idx, peaks, tu, den, window) ==
    LET e == Scale(den) * At(peaks, idx) - tu
    IN  IF idx - Last(kept_idx) > window
        THEN <<Append(kept, e), Append(kept_idx, idx)>>
        ELSE IF Scale(den) * At(peaks, idx) > Last(kept)
        THEN <<SetLast(kept, e), SetLast(kept_idx, idx)>>
        ELSE <<kept, kept_idx>>

\* Series of three storms and more, close enough for the merge loop to
\* replace a kept peak after it has appended one.
LongPeakSeries ==
    {<<1, 3, 0, -1, 1, 3, 1, 2, -1, -1, -5, -5>>,
     <<1, -5, -5, -5, 3, 2, 2, 3, 1, 3, 2, 2>>}

\* The peaks series of the model: a free part, after a calm stretch or not,
\* and the long series.
PeakSeries ==
    {pad \o body : pad \in {<<>>, [j \in 1 .. PadLen |-> 0 - 5]},
                   body \in SeqsUpTo(-1 .. MaxPeak, 1, MaxBody)}
      \cup LongPeakSeries

POTIdle == [pc |-> "idle"]

POTInit ==
    \E peaks \in PeakSeries, thr \in {2, 3, 5}, sr \in {168, 336} :
        pot = [pc |-> "start", peaks |-> peaks, thr |-> thr, den |-> 4,
               sampling_rate |-> sr, threshold_unit |-> 0,
               idx_storm_peaks |-> <<>>, storm_peaks |-> <<>>,
               independent_storm_peaks |-> <<>>,
               idx_independent_storm_peaks |-> <<>>,
               window |-> 0, i |-> 0, err |-> "none", ret |-> <<>>]

\* line 8
POT_Percentile ==
    /\ pot.pc = "start"
    /\ IF percentile_ok(pot.thr, pot.den)
       THEN pot' = [pot EXCEPT !.pc = "peaks",
                               !.threshold_unit = hazen(pot.peaks, pot.thr, pot.den)]
       ELSE pot' = [pot EXCEPT !.pc = "raised", !.err = "ValueError"]
    /\ UNCHANGED <<gp, aht, stx, dist, lt, bm, val, ryv, mler>>

\* lines 9-12
POT_GlobalPeaks ==
    /\ pot.pc = "peaks"
    /\ LET ex == exceedance(pot.peaks, pot.threshold_unit, pot.den)
           g == global_peaks(ex)
       IN  IF g.err # "none"
           THEN pot' = [pot EXCEPT !.pc = "raised", !.err = g.err]
           ELSE pot' = [pot EXCEPT !.pc = "first",
                            !.idx_storm_peaks = g.peak_inds,
                            !.storm_peaks = [j \in 1 .. Len(g.peak_inds) |->
                                                At(ex, g.peak_inds[j])]]
    /\ UNCHANGED <<gp, aht, stx, dist, lt, bm, val, ryv, mler>>

\* lines 16-17: storm_peaks[0] of an empty array is an IndexError
POT_First ==
    /\ pot.pc = "first"
    /\ IF pot.storm_peaks = <<>>
       THEN pot' = [pot EXCEPT !.pc = "raised", !.err = "IndexError"]
       ELSE pot' = [pot EXCEPT !.pc = "window",
                        !.independent_storm_peaks = <<At(pot.storm_peaks, 0)>>,
                        !.idx_independent_storm_peaks = <<At(pot.idx_storm_peaks, 0)>>]
    /\ UNCHANGED <<gp, aht, stx, dist, lt, bm, val, ryv, mler>>

\* lines 19-29: [0] of an empty selection is an IndexError
POT_Window ==
    /\ pot.pc = "window"
    /\ IF lags_below_half(pot.peaks, pot.sampling_rate) = {}
       THEN pot' = [pot EXCEPT !.pc = "raised", !.err = "IndexError"]
       ELSE pot' = [pot EXCEPT !.pc = "merge", !.i = 1,
                        !.window = window_of(pot.peaks, pot.sampling_rate)]
    /\ UNCHANGED <<gp, aht, stx, dist, lt, bm, val, ryv, mler>>

\* lines 31-37, one iteration
POT_Merge ==
    /\ pot.pc = "merge"
    /\ pot.i < Len(pot.idx_storm_peaks)
    /\ LET m == merge_step(pot.independent_storm_peaks,
                           pot.idx_independent_storm_peaks,
                           At(pot.idx_storm_peaks, pot.i),
                           pot.peaks, pot.threshold_unit, pot.den, pot.window)
       IN  pot' = [pot EXCEPT !.i = @ + 1,
                       !.independent_storm_peaks = m[1],
                       !.idx_independent_storm_peaks = m[2]]
    /\ UNCHANGED <<gp, aht, stx, dist, lt, bm, val, ryv, mler>>

\* line 39
POT_Return ==
    /\ pot.pc = "merge"
    /\ pot.i >= Len(pot.idx_storm_peaks)
    /\ pot' = [pot EXCEPT !.pc = "done", !.ret = pot.independent_storm_peaks]
    /\ UNCHANGED <<gp, aht, stx, dist, lt, bm, val, ryv, mler>>

POTNext ==
    \/ POT_Percentile
    \/ POT_GlobalPeaks
    \/ POT_First
    \/ POT_Window
    \/ POT_Merge
    \/ POT_Return

\* _peaks_over_threshold as a function: the error raised, or the list returned.
RECURSIVE merge_all(_, _, _, _, _, _, _, _)
merge_all(kept, kept_idx, idxs, i, peaks, tu, den, window) ==
    IF i >= Len(idxs) THEN kept
    ELSE LET m == merge_step(kept, kept_idx, At(idxs, i), peaks, tu, den, window)
         IN  merge_all(m[1], m[2], idxs, i + 1, peaks, tu, den, window)

peaks_over_threshold(peaks, thr, den, sampling_rate) ==
    IF ~percentile_ok(thr, den) THEN [err |-> "ValueError", ret |-> <<>>]
    ELSE LET tu == hazen(peaks, thr, den)
             ex == exceedance(peaks, tu, den)
             g == global_peaks(ex)
         IN  IF g.err # "none" THEN [err |-> g.err, ret |-> <<>>]
             ELSE IF g.peak_inds = <<>> THEN [err |-> "IndexError", ret |-> <<>>]
             ELSE IF lags_below_half(peaks, sampling_rate) = {}
             THEN [err |-> "IndexError", ret |-> <<>>]
             ELSE [err |-> "none",
                   ret |-> merge_all(<<At(ex, At(g.peak_inds, 0))>>,
                                     <<At(g.peak_inds, 0)>>, g.peak_inds, 1,
                                     peaks, tu, den,
                                     window_of(peaks, sampling_rate))]

(***************************************************************************)
(* Probability distributions.                                              *)
(*                                                                         *)
(* A number is an exact rational <<numerator, denominator>>; not-a-number  *)
(* is the pair with denominator 0.  A scipy parametric distribution is     *)
(* its CDF tabulated on the grid 0..XMax in units of 1/CdfDen.             *)
(***************************************************************************)
XMax == 2        \* the evaluation points are 0..XMax
CdfDen == 2      \* a tabulated CDF takes the values 0/CdfDen..CdfDen/CdfDen
MaxSample == 3   \* largest peaks sample fitted
MaxNPeaks == 2   \* largest number of short-term peaks

NaN == <<0, 0>>

IsNaN(r) == r[2] = 0

Rat(n, d) == <<n, d>>

\* IEEE arithmetic: an operation on not-a-number gives not-a-number.
RAdd(a, b) == IF IsNaN(a) \/ IsNaN(b) THEN NaN
              ELSE <<a[1] * b[2] + b[1] * a[2], a[2] * b[2]>>

RMul(a, b) == IF IsNaN(a) \/ IsNaN(b) THEN NaN ELSE <<a[1] * b[1], a[2] * b[2]>>

RSub(a, b) == RAdd(a, <<-b[1], b[2]>>)

\* a / b for integers or rationals; x/0 is not a number here (the weights sum)
RDiv(a, b) == IF IsNaN(a) \/ IsNaN(b) \/ b[1] = 0 THEN NaN
              ELSE IF b[1] > 0 THEN <<a[1] * b[2], a[2] * b[1]>>
              ELSE <<-(a[1] * b[2]), -(a[2] * b[1])>>

RECURSIVE RPow(_, _)
RPow(a, n) == IF n = 0 THEN <<1, 1>> ELSE RMul(a, RPow(a, n - 1))

\* == of two floats: not-a-number equals nothing
REq(a, b) == ~IsNaN(a) /\ ~IsNaN(b) /\ a[1] * b[2] = b[1] * a[2]

RLess(a, b) == ~IsNaN(a) /\ ~IsNaN(b) /\ a[1] * b[2] < b[1] * a[2]

Grid == 0 .. XMax

\* The tabulated CDFs: nondecreasing on the grid.
CdfTables == {f \in [Grid -> 0 .. CdfDen] : \A a, b \in Grid : a <= b => f[a] <= f[b]}

\* The CDFs genpareto.fit(..., floc=0.) can return: 0 at 0.
GpdTables == {f \in CdfTables : f[0] = 0}

\* lines 319-322: npeaks and npot of a sample
pot_count_ge(x, threshold) == Cardinality({j \in 1 .. Len(x) : x[j] >= threshold})

pot_count(x, threshold) == Cardinality({j \in 1 .. Len(x) : x[j] > threshold})

\* lines 339-348, _Peaks._cdf at one point
Peaks_cdf(d, q) ==
    IF q < d.threshold THEN NaN
    ELSE RSub(<<1, 1>>, RMul(Rat(d.npot, d.npeaks),
                             RSub(<<1, 1>>, Rat(d.pot[q - d.threshold], CdfDen))))

\* cdf of a peaks distribution: a scipy frozen distribution or a _Peaks
peaks_cdf_of(d, q) ==
    IF d.kind = "pot" THEN Peaks_cdf(d, q) ELSE Rat(d.table[q], CdfDen)

\* lines 384-389, _ShortTermExtreme._cdf at one point
ShortTermExtreme_cdf_keep_nan(d, q) == RPow(peaks_cdf_of(d.peaks, q), d.npeaks)

\* a not-a-number peaks CDF replaced by 1 instead of 0
ShortTermExtreme_cdf_nan_to_one(d, q) ==
    LET c == peaks_cdf_of(d.peaks, q)
    IN  RPow(IF IsNaN(c) THEN <<1, 1>> ELSE c, d.npeaks)

ShortTermExtreme_cdf(d, q) ==
    LET c == peaks_cdf_of(d.peaks, q)
    IN  RPow(IF IsNaN(c) THEN <<0, 1>> ELSE c, d.npeaks)

DISTInit ==
    \E x \in SeqsUpTo(Grid, 1, MaxSample), threshold \in Grid \cup {-1} :
        dist = [pc |-> "start", x |-> x, threshold |-> threshold,
                peaks |-> [kind |-> "none"], ste |-> [kind |-> "none"],
                q |-> 0, peaks_cdf |-> NaN, ste_cdf |-> NaN, err |-> "none"]

\* peaks_distribution_peaks_over_threshold, lines 312-353.  threshold -1
\* stands for None: the default mean + 1.4*std is some number, taken here to
\* be any grid point.  genpareto.fit of an empty sample raises; otherwise it
\* returns some generalized Pareto with loc = 0.
D_PeaksOverThreshold ==
    /\ dist.pc = "start"
    /\ \E thr \in Grid, g \in GpdTables :
          /\ dist.threshold # -1 => thr = dist.threshold
          /\ IF pot_count(dist.x, thr) = 0
             THEN dist' = [dist EXCEPT !.pc = "raised", !.err = "ValueError"]
             ELSE dist' = [dist EXCEPT !.pc = "fitted",
                               !.peaks = [kind |-> "pot", pot |-> g, threshold |-> thr,
                                          npot |-> pot_count(dist.x, thr),
                                          npeaks |-> Len(dist.x)]]
    /\ UNCHANGED <<gp, pot, aht, stx, lt, bm, val, ryv, mler>>

\* peaks_distribution_weibull, lines 127-135: a frozen scipy distribution
D_Weibull ==
    /\ dist.pc = "start"
    /\ dist.threshold = -1
    /\ \E f \in CdfTables :
          dist' = [dist EXCEPT !.pc = "fitted",
                       !.peaks = [kind |-> "weibull", table |-> f]]
    /\ UNCHANGED <<gp, pot, aht, stx, lt, bm, val, ryv, mler>>

\* ste_peaks, lines 373-394
D_StePeaks ==
    /\ dist.pc = "fitted"
    /\ \E n \in 1 .. MaxNPeaks :
          dist' = [dist EXCEPT !.pc = "ste",
                       !.ste = [kind |-> "ste", peaks |-> dist.peaks, npeaks |-> n]]
    /\ UNCHANGED <<gp, pot, aht, stx, lt, bm, val, ryv, mler>>

\* peaks.cdf(q) and ste.cdf(q) at an evaluation point
D_Cdf ==
    /\ dist.pc = "ste"
    /\ \E q \in Grid :
          dist' = [dist EXCEPT !.pc = "evaluated", !.q = q,
                       !.peaks_cdf = peaks_cdf_of(dist.peaks, q),
                       !.ste_cdf = ShortTermExtreme_cdf(dist.ste, q)]
    /\ UNCHANGED <<gp, pot, aht, stx, lt, bm, val, ryv, mler>>

DISTNext == D_PeaksOverThreshold \/ D_Weibull \/ D_StePeaks \/ D_Cdf

(***************************************************************************)
(* full_seastate_long_term_extreme(ste, weights)                           *)
(***************************************************************************)
MaxW == 2        \* weights range over 1..MaxW
MaxK == 2        \* the rescaling constants are 1/2 and 2..MaxK

RECURSIVE RSum(_, _)
RSum(w, n) == IF n = 0 THEN <<0, 1>> ELSE RAdd(w[n], RSum(w, n - 1))

Min2(a, b) == IF a <= b THEN a ELSE b

\* line 576: self.weights = weights / np.sum(weights)
weights_as_given(weights) == weights

normalize(weights) ==
    [i \in 1 .. Len(weights) |-> RDiv(weights[i], RSum(weights, Len(weights)))]

\* lines 571-587: the _LongTermExtreme built from the arguments as they are
LongTermExtreme(ste, weights) ==
    [weights_in |-> weights, weights |-> normalize(weights), ste |-> ste,
     n |-> Len(weights)]

\* lines 581-585: zip stops at the shorter of weights and ste
RECURSIVE lte_sum(_, _, _)
lte_sum(o, q, m) ==
    IF m = 0 THEN <<0, 1>>
    ELSE RAdd(lte_sum(o, q, m - 1), RMul(o.weights[m], Rat(o.ste[m][q], CdfDen)))

LongTermExtreme_cdf(o, q) == lte_sum(o, q, Min2(Len(o.weights), Len(o.ste)))

\* Short-term distributions whose CDF reaches 1 on the grid.
SteTables == {f \in CdfTables : f[XMax] = CdfDen}

\* The weights of the sampled sea states: positive numbers.
WeightLists == SeqsUpTo({<<w, 1>> : w \in 1 .. MaxW}, 1, 2)

Rescalings == {<<1, 2>>} \cup {<<k, 1>> : k \in 2 .. MaxK}

LTInit ==
    \E ste \in SeqsUpTo(SteTables, 1, 2) :
        lt = [pc |-> "start", ste |-> ste, calls |-> <<>>, q |-> 0, cdfs |-> <<>>]

\* a call with some weights
LT_Call ==
    /\ lt.pc = "start"
    /\ \E w \in WeightLists :
          lt' = [lt EXCEPT !.pc = "called",
                     !.calls = <<LongTermExtreme(lt.ste, w)>>]
    /\ UNCHANGED <<gp, pot, aht, stx, dist, bm, val, ryv, mler>>

\* a second call, with the same distributions and the weights times k
LT_CallRescaled ==
    /\ lt.pc = "called"
    /\ \E k \in Rescalings :
          LET w == lt.calls[1].weights_in
          IN  lt' = [lt EXCEPT !.pc = "called2",
                         !.calls = Append(@, LongTermExtreme(lt.ste,
                                      [i \in 1 .. Len(w) |-> RMul(k, w[i])]))]
    /\ UNCHANGED <<gp, pot, aht, stx, dist, bm, val, ryv, mler>>

\* cdf(q) of both combiners
LT_Cdf ==
    /\ lt.pc = "called2"
    /\ \E q \in Grid :
          lt' = [lt EXCEPT !.pc = "evaluated", !.q = q,
                     !.cdfs = [c \in 1 .. Len(lt.calls) |->
                                  LongTermExtreme_cdf(lt.calls[c], q)]]
    /\ UNCHANGED <<gp, pot, aht, stx, dist, bm, val, ryv, mler>>

LTNext == LT_Call \/ LT_CallRescaled \/ LT_Cdf

(***************************************************************************)
(* automatic_hs_threshold(peaks, sampling_rate, initial_threshold_range,   *)
(*                        max_refinement)                                  *)
(*                                                                         *)
(* range_min, range_max, range_step and the thresholds are numerators over *)
(* the common denominator den; range_step /= 10 multiplies den by 10.      *)
(* best_threshold is a rational of its own.                                *)
(***************************************************************************)
MaxRefinement == 3   \* max_refinement ranges over 0..MaxRefinement

\* line 247, the 365.25*24 hours of a year
HoursPerYear == 8766

\* np.arange(range_min, range_max, range_step) for range_step > 0
arange(range_min, range_max, range_step) ==
    LET n == IF range_max > range_min
             THEN (range_max - range_min + range_step - 1) \div range_step
             ELSE 0
    IN  [j \in 1 .. n |-> range_min + (j - 1) * range_step]

\* the test of line 267 without the absolute value
minimal_change_signed(best, thr, den) ==
    2000 * (best[1] * (den \div best[2]) - thr) < den

\* the test of line 267 with a tolerance of 0.05
minimal_change_loose(best, thr, den) ==
    20 * Abs(best[1] * (den \div best[2]) - thr) < den

\* the test of line 258 never true
rate_never_below(count, npeaks, sampling_rate) == FALSE

\* lines 247, 257-258: rate_per_year = count / years < 2, with
\* years = len(peaks) / (365.25*24 / sampling_rate)
rate_below_2(count, npeaks, sampling_rate) ==
    count * HoursPerYear < 2 * npeaks * sampling_rate

\* line 267: np.abs(best_threshold - thresholds[max_i]) < 0.0005, the
\* threshold being thr/den and den a multiple of best's denominator
minimal_change(best, thr, den) ==
    2000 * Abs(best[1] * (den \div best[2]) - thr) < den

\* thresholds[k] with Python's indexing: -1 is the last entry
PyAt(s, k) == IF k < 0 THEN s[Len(s) + k + 1] ELSE s[k + 1]

\* line 249: the passes run while i < max_refinement
more_passes_inclusive(i, max_refinement) == i <= max_refinement

more_passes(i, max_refinement) == i < max_refinement

\* line 266: np.argmax(correlations), given the length of the list and the
\* index of its largest entry; -1 stands for the ValueError np.argmax raises
\* on an empty list
argmax_empty_is_0(ncorr, largest) == IF ncorr = 0 THEN 0 ELSE largest

argmax(ncorr, largest) == IF ncorr = 0 THEN -1 ELSE largest

\* the step left as it is
step_kept(den) == den

\* line 271: range_step /= 10, the numerator kept over ten times the
\* denominator
step_divided(den) == 10 * den

\* the range extended by nine steps after the last candidate
recentre_nine_after(thresholds, max_i, range_step) ==
    IF max_i = Len(thresholds) - 1
    THEN [range_min |-> 10 * PyAt(thresholds, max_i - 1),
          range_max |-> 10 * PyAt(thresholds, max_i) + 9 * range_step]
    ELSE IF max_i = 0
    THEN [range_min |-> 10 * PyAt(thresholds, max_i) - 9 * range_step,
          range_max |-> 10 * PyAt(thresholds, max_i + 1)]
    ELSE [range_min |-> 10 * PyAt(thresholds, max_i - 1),
          range_max |-> 10 * PyAt(thresholds, max_i + 1)]

\* lines 271-280: the range of the next pass, numerators over 10*den
recentre(thresholds, max_i, range_step) ==
    IF max_i = Len(thresholds) - 1
    THEN [range_min |-> 10 * PyAt(thresholds, max_i - 1),
          range_max |-> 10 * PyAt(thresholds, max_i) + 5 * range_step]
    ELSE IF max_i = 0
    THEN [range_min |-> 10 * PyAt(thresholds, max_i) - 9 * range_step,
          range_max |-> 10 * PyAt(thresholds, max_i + 1)]
    ELSE [range_min |-> 10 * PyAt(thresholds, max_i - 1),
          range_max |-> 10 * PyAt(thresholds, max_i + 1)]

\* The peaks series handed to the threshold search: a short one, and one long
\* enough for the rate of independent exceedances to fall below 2 a year.
AhtPeakSeries ==
    {<<0, 1, 0, 2, 0>>,
     <<0, 1, 0, 0, 2, 0, 0, 0, 3, 0, 0, 1, 0, 0>>}

\* initial_threshold_range as (min, max, step) in tenths
AhtRanges == {<<5, 9, 2>>, <<0, 2, 1>>, <<8, 10, 1>>, <<9, 10, 1>>}

AHTInit ==
    \E peaks \in AhtPeakSeries, rng \in AhtRanges, mr \in 0 .. MaxRefinement :
        aht = [pc |-> "loop", peaks |-> peaks, sampling_rate |-> 336,
               max_refinement |-> mr, den |-> 10,
               initial_threshold_range |-> rng,
               range_min |-> rng[1], range_max |-> rng[2], range_step |-> rng[3],
               best_threshold |-> <<-1, 1>>, i |-> 0,
               thresholds |-> <<>>, j |-> 0, ncorr |-> 0, max_i |-> -1,
               n_over |-> 0, fit_x |-> <<>>, probplot_x |-> <<>>,
               err |-> "none", ret |-> <<>>]

\* lines 249-251: the next pass enumerates its thresholds
AHT_Pass ==
    /\ aht.pc = "loop"
    /\ more_passes(aht.i, aht.max_refinement)
    /\ aht' = [aht EXCEPT !.pc = "scan", !.j = 0, !.ncorr = 0, !.max_i = -1,
                    !.thresholds = arange(aht.range_min, aht.range_max, aht.range_step)]
    /\ UNCHANGED <<gp, pot, stx, dist, lt, bm, val, ryv, mler>>

\* lines 253-264: one threshold of the scan.  n_over is len(over_threshold)
\* of line 257, fit_x the sample handed to distribution.fit (line 260) and
\* probplot_x the sample handed to stats.probplot (line 262).  Of the list
\* correlations the
\* model keeps the length and the running np.argmax: the correlation probplot
\* returns is some number, which either exceeds every earlier one (as the
\* first does) or does not.
AHT_Scan ==
    /\ aht.pc = "scan"
    /\ aht.j < Len(aht.thresholds)
    /\ \E over \in {peaks_over_threshold(aht.peaks, At(aht.thresholds, aht.j),
                                         aht.den, aht.sampling_rate)} :
          IF over.err # "none"
          THEN aht' = [aht EXCEPT !.pc = "raised", !.err = over.err]
          ELSE IF rate_below_2(Len(over.ret), Len(aht.peaks), aht.sampling_rate)
          THEN aht' = [aht EXCEPT !.pc = "select", !.n_over = Len(over.ret)]
          ELSE \E largest_so_far \in BOOLEAN :
                  /\ aht.ncorr = 0 => largest_so_far
                  /\ aht' = [aht EXCEPT !.j = @ + 1, !.ncorr = @ + 1,
                                  !.n_over = Len(over.ret),
                                  !.fit_x = over.ret,
                                  !.probplot_x = aht.peaks,
                                  !.max_i = IF largest_so_far THEN aht.ncorr ELSE @]
    /\ UNCHANGED <<gp, pot, stx, dist, lt, bm, val, ryv, mler>>

\* the scan has visited every threshold
AHT_ScanEnd ==
    /\ aht.pc = "scan"
    /\ aht.j >= Len(aht.thresholds)
    /\ aht' = [aht EXCEPT !.pc = "select"]
    /\ UNCHANGED <<gp, pot, stx, dist, lt, bm, val, ryv, mler>>

\* lines 266-280
AHT_Select ==
    /\ aht.pc = "select"
    /\ LET max_i == argmax(aht.ncorr, aht.max_i)
           thr == At(aht.thresholds, max_i)
           change == minimal_change(aht.best_threshold, thr, aht.den)
           nxt == recentre(aht.thresholds, max_i, aht.range_step)
       IN  IF max_i < 0
           THEN aht' = [aht EXCEPT !.pc = "raised", !.err = "ValueError"]
           ELSE IF change /\ aht.i < aht.max_refinement - 1
           THEN aht' = [aht EXCEPT !.pc = "final", !.max_i = max_i,
                            !.best_threshold = <<thr, aht.den>>]
           ELSE aht' = [aht EXCEPT !.pc = "loop", !.i = @ + 1, !.max_i = max_i,
                            !.best_threshold = <<thr, aht.den>>,
                            !.den = step_divided(@),
                            !.range_min = nxt.range_min,
                            !.range_max = nxt.range_max]
    /\ UNCHANGED <<gp, pot, stx, dist, lt, bm, val, ryv, mler>>

\* the for loop is exhausted
AHT_LoopEnd ==
    /\ aht.pc = "loop"
    /\ ~more_passes(aht.i, aht.max_refinement)
    /\ aht' = [aht EXCEPT !.pc = "final"]
    /\ UNCHANGED <<gp, pot, stx, dist, lt, bm, val, ryv, mler>>

\* lines 282-283
AHT_Return ==
    /\ aht.pc = "final"
    /\ IF percentile_ok(aht.best_threshold[1], aht.best_threshold[2])
       THEN aht' = [aht EXCEPT !.pc = "done",
                        !.ret = <<aht.best_threshold,
                                  hazen(aht.peaks, aht.best_threshold[1],
                                        aht.best_threshold[2])>>]
       ELSE aht' = [aht EXCEPT !.pc = "raised", !.err = "ValueError"]
    /\ UNCHANGED <<gp, pot, stx, dist, lt, bm, val, ryv, mler>>

AHTNext ==
    \/ AHT_Pass
    \/ AHT_Scan
    \/ AHT_ScanEnd
    \/ AHT_Select
    \/ AHT_LoopEnd
    \/ AHT_Return

(***************************************************************************)
(* block_maxima(t, x, t_st), with integer times and t_st > 0               *)
(***************************************************************************)
\* the number of blocks rounded up, the trailing part block counted
nblock_ceil(t, t_st) == (Last(t) + t_st - 1) \div t_st

\* line 422: nblock = int(t[-1] / t_st), truncated towards zero
nblock(t, t_st) ==
    IF Last(t) >= 0 THEN Last(t) \div t_st ELSE -((-Last(t)) \div t_st)

\* the blocks counted from the first sample's time
block_samples_from_start(t, x, t_st, iblock) ==
    {x[j] : j \in {i \in 1 .. Len(x) : /\ t[i] - t[1] >= iblock * t_st
                                       /\ t[i] - t[1] < (iblock + 1) * t_st}}

\* line 425: the samples of block iblock
block_samples(t, x, t_st, iblock) ==
    {x[j] : j \in {i \in 1 .. Len(x) : t[i] >= iblock * t_st /\ t[i] < (iblock + 1) * t_st}}

\* lines 422-427: np.max of an empty block raises ValueError
block_maxima(t, x, t_st) ==
    LET nb == nblock(t, t_st)
    IN  IF \E b \in 0 .. (nb - 1) : block_samples(t, x, t_st, b) = {}
        THEN [err |-> "ValueError", maxima |-> <<>>]
        ELSE [err |-> "none",
              maxima |-> [b \in 1 .. nb |-> SetMax(block_samples(t, x, t_st, b - 1))]]

MaxBmLen == 3    \* longest series handed to block_maxima on its own
MaxBmTime == 4   \* its times range over 0..MaxBmTime
MaxBmTst == 2    \* its short-term periods range over 1..MaxBmTst

\* the values of the samples
BmValues == {-1, 0, 2}

\* nondecreasing time arrays
BmTimes ==
    {t \in SeqsUpTo(0 .. MaxBmTime, 1, MaxBmLen) :
        \A j \in 1 .. (Len(t) - 1) : t[j] <= t[j + 1]}

BMInit ==
    \E t \in BmTimes, t_st \in 1 .. MaxBmTst :
        \E x \in [1 .. Len(t) -> BmValues] :
            bm = [pc |-> "start", t |-> t, x |-> x, t_st |-> t_st,
                  ret |-> [err |-> "none", maxima |-> <<>>],
                  x2 |-> x, ret2 |-> [err |-> "none", maxima |-> <<>>]]

\* lines 422-427: the call
BM_Call ==
    /\ bm.pc = "start"
    /\ bm' = [bm EXCEPT !.pc = "called",
                        !.ret = block_maxima(bm.t, bm.x, bm.t_st)]
    /\ UNCHANGED <<gp, pot, aht, stx, dist, lt, val, ryv, mler>>

\* lines 422-427: a second call, on a series that differs from the first in
\* the samples at or after the end of the last whole block only
BM_CallChanged ==
    /\ bm.pc = "called"
    /\ \E x2 \in [1 .. Len(bm.t) -> BmValues] :
          /\ \A j \in 1 .. Len(bm.t) :
                bm.t[j] < (Last(bm.t) \div bm.t_st) * bm.t_st => x2[j] = bm.x[j]
          /\ bm' = [bm EXCEPT !.pc = "done", !.x2 = x2,
                              !.ret2 = block_maxima(bm.t, x2, bm.t_st)]
    /\ UNCHANGED <<gp, pot, aht, stx, dist, lt, val, ryv, mler>>

BMNext == BM_Call \/ BM_CallChanged

(***************************************************************************)
(* short_term_extreme(t, data, t_st, method) and its alias ste             *)
(***************************************************************************)
MaxStxLen == 3   \* longest response series handed to short_term_extreme
MaxTst == 2      \* short-term periods range over 1..MaxTst

\* lines 522-529
peaks_methods ==
    [peaks_weibull |-> "peaks_distribution_weibull",
     peaks_weibull_tail_fit |-> "peaks_distribution_weibull_tail_fit",
     peaks_over_threshold |-> "peaks_distribution_peaks_over_threshold"]

blockmaxima_methods ==
    [block_maxima_gev |-> "ste_block_maxima_gev",
     block_maxima_gumbel |-> "ste_block_maxima_gumbel"]

\* the two durations exchanged
number_of_short_term_peaks_inverse(n, t, t_st) == Rat(n * t, t_st)

\* lines 102-106: n * t_st / t, not finite when t is 0
number_of_short_term_peaks(n, t, t_st) == Rat(n * t_st, t)

\* line 545, return ste: the local name ste is bound only by the two known
\* branches; reading it unbound raises UnboundLocalError.
stx_return(r) ==
    IF r.ste.kind = "unbound"
    THEN [r EXCEPT !.pc = "raised", !.err = "UnboundLocalError"]
    ELSE [r EXCEPT !.pc = IF r.via = "ste" THEN "inner_done" ELSE "done",
                   !.ret = r.ste]

MethodNames ==
    DOMAIN peaks_methods \cup DOMAIN blockmaxima_methods \cup {"peaks_gumbel", ""}

STXInit ==
    \E data \in SeqsUpTo(-1 .. 1, 1, MaxStxLen), t0 \in {0, 1}, t_st \in 1 .. MaxTst,
       method \in MethodNames, via \in {"ste", "short_term_extreme"} :
        stx = [pc |-> IF via = "ste" THEN "alias" ELSE "start", via |-> via,
               t |-> TimeAxis(t0, 1, Len(data)), data |-> data, t_st |-> t_st,
               method |-> method, peaks |-> <<>>, nst |-> NaN, maxima |-> <<>>,
               printed |-> FALSE, ste |-> [kind |-> "unbound"], err |-> "none",
               ret |-> [kind |-> "nothing"]]

\* line 486: ste calls short_term_extreme with its own arguments
STX_Alias ==
    /\ stx.pc = "alias"
    /\ stx' = [stx EXCEPT !.pc = "start"]
    /\ UNCHANGED <<gp, pot, aht, dist, lt, bm, val, ryv, mler>>

\* lines 531-536: a peaks method extracts the peaks and scales their number
STX_Peaks ==
    /\ stx.pc = "start"
    /\ stx.method \in DOMAIN peaks_methods
    /\ LET g == global_peaks(stx.data)
       IN  IF g.err # "none"
           THEN stx' = [stx EXCEPT !.pc = "raised", !.err = g.err]
           ELSE stx' = [stx EXCEPT !.pc = "fit_peaks",
                            !.peaks = [j \in 1 .. Len(g.peak_inds) |->
                                          At(stx.data, g.peak_inds[j])],
                            !.nst = number_of_short_term_peaks(
                                        Len(g.peak_inds),
                                        Last(stx.t) - At(stx.t, 0), stx.t_st)]
    /\ UNCHANGED <<gp, pot, aht, dist, lt, bm, val, ryv, mler>>

\* lines 537-538: the selected estimator fits the peaks (scipy's fit raises
\* on an empty sample) and ste_peaks wraps the fit
STX_FitPeaks ==
    /\ stx.pc = "fit_peaks"
    /\ IF stx.peaks = <<>>
       THEN stx' = [stx EXCEPT !.pc = "raised", !.err = "ValueError"]
       ELSE stx' = [stx EXCEPT !.pc = "return",
                        !.ste = [kind |-> "ste_peaks",
                                 peaks |-> [fit |-> peaks_methods[stx.method],
                                            sample |-> stx.peaks],
                                 npeaks |-> stx.nst]]
    /\ UNCHANGED <<gp, pot, aht, dist, lt, bm, val, ryv, mler>>

\* lines 539-541
STX_BlockMaxima ==
    /\ stx.pc = "start"
    /\ stx.method \in DOMAIN blockmaxima_methods
    /\ LET b == block_maxima(stx.t, stx.data, stx.t_st)
       IN  IF b.err # "none"
           THEN stx' = [stx EXCEPT !.pc = "raised", !.err = b.err]
           ELSE stx' = [stx EXCEPT !.pc = "fit_maxima", !.maxima = b.maxima]
    /\ UNCHANGED <<gp, pot, aht, dist, lt, bm, val, ryv, mler>>

\* line 542
STX_FitMaxima ==
    /\ stx.pc = "fit_maxima"
    /\ IF stx.maxima = <<>>
       THEN stx' = [stx EXCEPT !.pc = "raised", !.err = "ValueError"]
       ELSE stx' = [stx EXCEPT !.pc = "return",
                        !.ste = [kind |-> "block_maxima",
                                 fit |-> blockmaxima_methods[stx.method],
                                 sample |-> stx.maxima]]
    /\ UNCHANGED <<gp, pot, aht, dist, lt, bm, val, ryv, mler>>

\* lines 543-544
STX_NotFound ==
    /\ stx.pc = "start"
    /\ stx.method \notin DOMAIN peaks_methods
    /\ stx.method \notin DOMAIN blockmaxima_methods
    /\ stx' = [stx EXCEPT !.pc = "return", !.printed = TRUE]
    /\ UNCHANGED <<gp, pot, aht, dist, lt, bm, val, ryv, mler>>

\* line 545
STX_Return ==
    /\ stx.pc = "return"
    /\ stx' = stx_return(stx)
    /\ UNCHANGED <<gp, pot, aht, dist, lt, bm, val, ryv, mler>>

\* line 487: ste returns what short_term_extreme returned
STX_AliasReturn ==
    /\ stx.pc = "inner_done"
    /\ stx' = [stx EXCEPT !.pc = "done"]
    /\ UNCHANGED <<gp, pot, aht, dist, lt, bm, val, ryv, mler>>

STXNext ==
    \/ STX_Alias
    \/ STX_Peaks
    \/ STX_FitPeaks
    \/ STX_BlockMaxima
    \/ STX_FitMaxima
    \/ STX_NotFound
    \/ STX_Return
    \/ STX_AliasReturn

(***************************************************************************)
(* The argument checks at the head of automatic_hs_threshold (lines        *)
(* 233-243) and of global_peaks (lines 62-63).  An argument is kept as the *)
(* name of its Python type, initial_threshold_range as its length.         *)
(***************************************************************************)
\* isinstance with every type accepted
isinstance_any(kind, types) == TRUE

\* isinstance(value, types): bool is a subclass of int
isinstance(kind, types) ==
    \/ kind \in types
    \/ kind = "bool" /\ "int" \in types

ScalarKinds == {"float", "int", "bool", "str", "NoneType"}

ArrayKinds == {"ndarray", "list", "Series"}

\* the lengths of initial_threshold_range
RangeLens == {2, 3, 4}

VALInit ==
    \/ \E sr \in ScalarKinds, pk \in ArrayKinds, n \in RangeLens, mr \in ScalarKinds :
          val = [fn |-> "automatic_hs_threshold", pc |-> "sampling_rate",
                 sampling_rate |-> sr, peaks |-> pk, range_len |-> n,
                 max_refinement |-> mr, err |-> "none", computing |-> FALSE]
    \/ \E t \in ArrayKinds, data \in ArrayKinds :
          val = [fn |-> "global_peaks", pc |-> "t", t |-> t, data |-> data,
                 err |-> "none", computing |-> FALSE]

\* lines 233-234
VAL_SamplingRate ==
    /\ val.pc = "sampling_rate"
    /\ IF ~isinstance(val.sampling_rate, {"float", "int"})
       THEN val' = [val EXCEPT !.pc = "raised", !.err = "TypeError"]
       ELSE val' = [val EXCEPT !.pc = "peaks"]
    /\ UNCHANGED <<gp, pot, aht, stx, dist, lt, bm, ryv, mler>>

\* lines 236-237
VAL_Peaks ==
    /\ val.pc = "peaks"
    /\ IF ~isinstance(val.peaks, {"ndarray"})
       THEN val' = [val EXCEPT !.pc = "raised", !.err = "TypeError"]
       ELSE val' = [val EXCEPT !.pc = "range"]
    /\ UNCHANGED <<gp, pot, aht, stx, dist, lt, bm, ryv, mler>>

\* lines 239-240
VAL_Range ==
    /\ val.pc = "range"
    /\ IF ~(val.range_len = 3)
       THEN val' = [val EXCEPT !.pc = "raised", !.err = "ValueError"]
       ELSE val' = [val EXCEPT !.pc = "max_refinement"]
    /\ UNCHANGED <<gp, pot, aht, stx, dist, lt, bm, ryv, mler>>

\* lines 242-243
VAL_MaxRefinement ==
    /\ val.pc = "max_refinement"
    /\ IF ~isinstance(val.max_refinement, {"int"})
       THEN val' = [val EXCEPT !.pc = "raised", !.err = "TypeError"]
       ELSE val' = [val EXCEPT !.pc = "body"]
    /\ UNCHANGED <<gp, pot, aht, stx, dist, lt, bm, ryv, mler>>

\* line 62
VAL_AssertT ==
    /\ val.pc = "t"
    /\ IF ~isinstance(val.t, {"ndarray"})
       THEN val' = [val EXCEPT !.pc = "raised", !.err = "AssertionError"]
       ELSE val' = [val EXCEPT !.pc = "data"]
    /\ UNCHANGED <<gp, pot, aht, stx, dist, lt, bm, ryv, mler>>

\* line 63
VAL_AssertData ==
    /\ val.pc = "data"
    /\ IF ~isinstance(val.data, {"ndarray"})
       THEN val' = [val EXCEPT !.pc = "raised", !.err = "AssertionError"]
       ELSE val' = [val EXCEPT !.pc = "body"]
    /\ UNCHANGED <<gp, pot, aht, stx, dist, lt, bm, ryv, mler>>

\* lines 245-250 and line 66: the checks are passed and the computation
\* starts, the first scan or the call of upcrossing
VAL_Body ==
    /\ val.pc = "body"
    /\ val' = [val EXCEPT !.pc = "computing", !.computing = TRUE]
    /\ UNCHANGED <<gp, pot, aht, stx, dist, lt, bm, ryv, mler>>

VALNext ==
    \/ VAL_SamplingRate
    \/ VAL_Peaks
    \/ VAL_Range
    \/ VAL_MaxRefinement
    \/ VAL_AssertT
    \/ VAL_AssertData
    \/ VAL_Body

(***************************************************************************)
(* return_year_value(ppf, return_year, short_term_period_hr), on Python    *)
(* numbers: a division by zero raises ZeroDivisionError.                   *)
(***************************************************************************)
MaxReturnYear == 3   \* return_year ranges over 0..MaxReturnYear and 100
MaxPeriodHr == 3     \* short_term_period_hr ranges over 0..MaxPeriodHr

\* line 882: p = 1 / (return_year * 365.25 * 24 / short_term_period_hr)
ryv_p(return_year, short_term_period_hr) ==
    RDiv(<<1, 1>>, RDiv(RMul(<<return_year, 1>>, <<HoursPerYear, 1>>),
                        <<short_term_period_hr, 1>>))

\* the argument with the exceedance probability itself
ryv_arg_p(p) == p

\* line 883: the argument handed to ppf, 1 - p
ryv_arg(p) == RSub(<<1, 1>>, p)

\* The callables handed in as ppf: q |-> a*q + b
PpfSet == {[a |-> 1, b |-> 0], [a |-> 2, b |-> 1], [a |-> -1, b |-> 3]}

ppf_call(ppf, q) == RAdd(RMul(<<ppf.a, 1>>, q), <<ppf.b, 1>>)

RYVInit ==
    \E ppf \in PpfSet, return_year \in (0 .. MaxReturnYear) \cup {100},
       short_term_period_hr \in 0 .. MaxPeriodHr :
        ryv = [pc |-> "start", ppf |-> ppf, return_year |-> return_year,
               short_term_period_hr |-> short_term_period_hr,
               p |-> NaN, calls |-> <<>>, returned |-> <<>>,
               err |-> "none", ret |-> <<>>]

\* line 882
RYV_P ==
    /\ ryv.pc = "start"
    /\ IF ryv.short_term_period_hr = 0 \/ ryv.return_year = 0
       THEN ryv' = [ryv EXCEPT !.pc = "raised", !.err = "ZeroDivisionError"]
       ELSE ryv' = [ryv EXCEPT !.pc = "p",
                         !.p = ryv_p(ryv.return_year, ryv.short_term_period_hr)]
    /\ UNCHANGED <<gp, pot, aht, stx, dist, lt, bm, val, mler>>

\* line 883, the call of ppf
RYV_Ppf ==
    /\ ryv.pc = "p"
    /\ ryv' = [ryv EXCEPT !.pc = "called",
                     !.calls = Append(@, ryv_arg(ryv.p)),
                     !.returned = Append(@, ppf_call(ryv.ppf, ryv_arg(ryv.p)))]
    /\ UNCHANGED <<gp, pot, aht, stx, dist, lt, bm, val, mler>>

\* line 883, the return
RYV_Return ==
    /\ ryv.pc = "called"
    /\ ryv' = [ryv EXCEPT !.pc = "done", !.ret = Last(ryv.returned)]
    /\ UNCHANGED <<gp, pot, aht, stx, dist, lt, bm, val, mler>>

RYVNext == RYV_P \/ RYV_Ppf \/ RYV_Return

(***************************************************************************)
(* mler_simulation(parameters=None).  A dict is a function from its keys;  *)
(* the model keeps the dict the caller passed (caller), the dict created   *)
(* at line 713 (fresh), and which of the two the local name sim refers to. *)
(***************************************************************************)
MaxEnd == 3      \* endTime and endX range over 1..MaxEnd
MaxDelta == 2    \* dT and dX range over 1..MaxDelta

\* np.ceil((b - a)/d + 1) as an int, for d > 0
ceil_steps(a, b, d) ==
    IF b >= a THEN (b - a + d - 1) \div d + 1 ELSE 1 - ((a - b) \div d)

\* np.linspace(a, b, n), the samples as fractions
linspace(a, b, n) ==
    IF n = 1 THEN << <<a, 1>> >>
    ELSE [k \in 1 .. n |-> <<a * (n - 1) + (k - 1) * (b - a), n - 1>>]

\* sim[key] = value, on the dict object that sim refers to
sim_setitem(m, key, value) ==
    IF m.sim = "parameters"
    THEN [m EXCEPT !.caller = (key :> value) @@ @]
    ELSE [m EXCEPT !.fresh = (key :> value) @@ @]

\* sim[key]
sim_getitem(m, key) ==
    IF m.sim = "parameters" THEN m.caller[key] ELSE m.fresh[key]

EmptyDict == [key \in {} |-> 0]

\* the dicts a caller passes
CallerDicts ==
    {[startTime |-> st, endTime |-> et, dT |-> dt, T0 |-> 0,
      startX |-> sx, endX |-> ex, dX |-> dx, X0 |-> 0] :
        st \in {-1, 0}, et \in 1 .. MaxEnd, dt \in 1 .. MaxDelta,
        sx \in {0}, ex \in 1 .. MaxEnd, dx \in 1 .. MaxDelta}

MLERInit ==
    \/ mler = [pc |-> "start", parameters |-> "None", caller |-> EmptyDict,
               given |-> EmptyDict, fresh |-> EmptyDict, sim |-> "unbound",
               ret |-> "nothing"]
    \/ \E d \in CallerDicts :
          mler = [pc |-> "start", parameters |-> "dict", caller |-> d,
                  given |-> d, fresh |-> EmptyDict, sim |-> "unbound",
                  ret |-> "nothing"]

\* lines 710-713
MLER_New ==
    /\ mler.pc = "start"
    /\ mler' = [mler EXCEPT !.pc = "branch", !.sim = "fresh", !.fresh = EmptyDict]
    /\ UNCHANGED <<gp, pot, aht, stx, dist, lt, bm, val, ryv>>

\* lines 715-724
MLER_Defaults ==
    /\ mler.pc = "branch"
    /\ mler.parameters = "None"
    /\ mler' = [mler EXCEPT !.pc = "maxIT",
                      !.fresh = [startTime |-> -150, endTime |-> 150, dT |-> 1,
                                 T0 |-> 0, startX |-> -300, endX |-> 300,
                                 dX |-> 1, X0 |-> 0]]
    /\ UNCHANGED <<gp, pot, aht, stx, dist, lt, bm, val, ryv>>

\* lines 725-726: sim = parameters binds the name to the caller's dict
MLER_Alias ==
    /\ mler.pc = "branch"
    /\ mler.parameters # "None"
    /\ mler' = [mler EXCEPT !.pc = "maxIT", !.sim = "parameters"]
    /\ UNCHANGED <<gp, pot, aht, stx, dist, lt, bm, val, ryv>>

\* lines 729-730
MLER_MaxIT ==
    /\ mler.pc = "maxIT"
    /\ mler' = [sim_setitem(mler, "maxIT",
                    ceil_steps(sim_getitem(mler, "startTime"),
                               sim_getitem(mler, "endTime"),
                               sim_getitem(mler, "dT")))
                EXCEPT !.pc = "T"]
    /\ UNCHANGED <<gp, pot, aht, stx, dist, lt, bm, val, ryv>>

\* line 731
MLER_T ==
    /\ mler.pc = "T"
    /\ mler' = [sim_setitem(mler, "T",
                    linspace(sim_getitem(mler, "startTime"),
                             sim_getitem(mler, "endTime"),
                             sim_getitem(mler, "maxIT")))
                EXCEPT !.pc = "maxIX"]
    /\ UNCHANGED <<gp, pot, aht, stx, dist, lt, bm, val, ryv>>

\* line 733
MLER_MaxIX ==
    /\ mler.pc = "maxIX"
    /\ mler' = [sim_setitem(mler, "maxIX",
                    ceil_steps(sim_getitem(mler, "startX"),
                               sim_getitem(mler, "endX"),
                               sim_getitem(mler, "dX")))
                EXCEPT !.pc = "X"]
    /\ UNCHANGED <<gp, pot, aht, stx, dist, lt, bm, val, ryv>>

\* line 734
MLER_X ==
    /\ mler.pc = "X"
    /\ mler' = [sim_setitem(mler, "X",
                    linspace(sim_getitem(mler, "startX"),
                             sim_getitem(mler, "endX"),
                             sim_getitem(mler, "maxIX")))
                EXCEPT !.pc = "return"]
    /\ UNCHANGED <<gp, pot, aht, stx, dist, lt, bm, val, ryv>>

\* line 736: return sim, the object itself
MLER_Return ==
    /\ mler.pc = "return"
    /\ mler' = [mler EXCEPT !.pc = "done", !.ret = mler.sim]
    /\ UNCHANGED <<gp, pot, aht, stx, dist, lt, bm, val, ryv>>

MLERNext ==
    \/ MLER_New
    \/ MLER_Defaults
    \/ MLER_Alias
    \/ MLER_MaxIT
    \/ MLER_T
    \/ MLER_MaxIX
    \/ MLER_X
    \/ MLER_Return

(***************************************************************************)
(* Specifications.                                                         *)
(***************************************************************************)
AHTIdle == [pc |-> "idle"]

STXIdle == [pc |-> "idle"]

DISTIdle == [pc |-> "idle"]

LTIdle == [pc |-> "idle"]

BMIdle == [pc |-> "idle"]

VALIdle == [pc |-> "idle"]

RYVIdle == [pc |-> "idle"]

MLERIdle == [pc |-> "idle"]

\* the calls of the other families have not been made
OthersIdle == bm = BMIdle /\ val = VALIdle /\ ryv = RYVIdle /\ mler = MLERIdle

InitGP ==
    /\ GPInit /\ pot = POTIdle /\ aht = AHTIdle /\ stx = STXIdle
    /\ dist = DISTIdle /\ lt = LTIdle
    /\ OthersIdle

SpecGP == InitGP /\ [][GPNext]_vars

InitPOT ==
    /\ gp = GPIdle /\ POTInit /\ aht = AHTIdle /\ stx = STXIdle
    /\ dist = DISTIdle /\ lt = LTIdle
    /\ OthersIdle

SpecPOT == InitPOT /\ [][POTNext]_vars

InitDIST ==
    /\ gp = GPIdle /\ pot = POTIdle /\ aht = AHTIdle /\ stx = STXIdle
    /\ DISTInit /\ lt = LTIdle
    /\ OthersIdle

SpecDIST == InitDIST /\ [][DISTNext]_vars

InitLT ==
    /\ gp = GPIdle /\ pot = POTIdle /\ aht = AHTIdle /\ stx = STXIdle
    /\ dist = DISTIdle /\ LTInit
    /\ OthersIdle

SpecLT == InitLT /\ [][LTNext]_vars

InitAHT ==
    /\ gp = GPIdle /\ pot = POTIdle /\ AHTInit /\ stx = STXIdle
    /\ dist = DISTIdle /\ lt = LTIdle
    /\ OthersIdle

SpecAHT == InitAHT /\ [][AHTNext]_vars

InitSTX ==
    /\ gp = GPIdle /\ pot = POTIdle /\ aht = AHTIdle /\ STXInit
    /\ dist = DISTIdle /\ lt = LTIdle
    /\ OthersIdle

SpecSTX == InitSTX /\ [][STXNext]_vars

\* the calls of the families modelled first have not been made
FirstIdle ==
    /\ gp = GPIdle /\ pot = POTIdle /\ aht = AHTIdle /\ stx = STXIdle
    /\ dist = DISTIdle /\ lt = LTIdle

InitBM == FirstIdle /\ BMInit /\ val = VALIdle /\ ryv = RYVIdle /\ mler = MLERIdle

SpecBM == InitBM /\ [][BMNext]_vars

InitVAL == FirstIdle /\ bm = BMIdle /\ VALInit /\ ryv = RYVIdle /\ mler = MLERIdle

SpecVAL == InitVAL /\ [][VALNext]_vars

InitRYV == FirstIdle /\ bm = BMIdle /\ val = VALIdle /\ RYVInit /\ mler = MLERIdle

SpecRYV == InitRYV /\ [][RYVNext]_vars

InitMLER == FirstIdle /\ bm = BMIdle /\ val = VALIdle /\ ryv = RYVIdle /\ MLERInit

SpecMLER == InitMLER /\ [][MLERNext]_vars

(***************************************************************************)
(* Properties.                                                             *)
(***************************************************************************)

\* C1 (as claimed): in the merge loop of _peaks_over_threshold, a storm peak
\* within one window of the last kept peak replaces it (value and index)
\* exactly when its exceedance is larger than the kept exceedance, and is
\* discarded otherwise, whatever threshold_unit is.
C1_LargerSurvives ==
    [][(pot.pc = "merge" /\ pot'.pc = "merge" /\ pot'.i = pot.i + 1) =>
        LET idx == At(pot.idx_storm_peaks, pot.i)
            e == Scale(pot.den) * At(pot.peaks, idx) - pot.threshold_unit
        IN  (idx - Last(pot.idx_independent_storm_peaks) <= pot.window) =>
                IF e > Last(pot.independent_storm_peaks)
                THEN /\ pot'.independent_storm_peaks =
                            SetLast(pot.independent_storm_peaks, e)
                     /\ pot'.idx_independent_storm_peaks =
                            SetLast(pot.idx_independent_storm_peaks, idx)
                ELSE /\ pot'.independent_storm_peaks = pot.independent_storm_peaks
                     /\ pot'.idx_independent_storm_peaks =
                            pot.idx_independent_storm_peaks]_vars

\* C6 (as claimed): global_peaks returns number_of_upcrossings + 1 peaks.
C6_UpcrossingsPlusOne ==
    gp.pc = "done" =>
        /\ Len(gp.peaks) = Len(upcrossing(gp.data)) + 1
        /\ Len(gp.t_peaks) = Len(upcrossing(gp.data)) + 1

\* C6 (amended): global_peaks returns exactly number_of_upcrossings peaks,
\* peak_times and peak_values of that same length, one per pair of
\* consecutive entries of the crossing indices with the final index appended;
\* no returned peak lies before the first up-crossing.
C6_OnePeakPerUpcrossing ==
    gp.pc = "done" =>
        /\ Len(gp.peaks) = Len(upcrossing(gp.data))
        /\ Len(gp.t_peaks) = Len(upcrossing(gp.data))
        /\ \A j \in 1 .. Len(gp.peak_inds) :
               gp.peak_inds[j] >= At(upcrossing(gp.data), 0)

\* C6 witness: a returned call with an up-crossing, where a sample before the
\* first up-crossing is larger than every returned peak.
C6_Witness ==
    /\ gp.pc = "done"
    /\ Len(gp.peaks) >= 1
    /\ \E i \in Idx(gp.data) :
          /\ i < At(upcrossing(gp.data), 0)
          /\ \A j \in 1 .. Len(gp.peaks) : At(gp.data, i) > gp.peaks[j]

\* Two floats that are the same value, taking not-a-number as the same as
\* not-a-number.
SameFloat(a, b) == (IsNaN(a) /\ IsNaN(b)) \/ REq(a, b)

\* C3 (as claimed): for n_peaks = 1 the short-term CDF is the peaks CDF at
\* every point and for every kind of peaks distribution.
C3_SameCdfEverywhere ==
    (dist.pc = "evaluated" /\ dist.ste.npeaks = 1) =>
        SameFloat(dist.ste_cdf, dist.peaks_cdf)

\* C3 (amended): for n_peaks = 1 the short-term CDF equals the peaks CDF
\* wherever the peaks CDF is a number, and is 0 where the peaks CDF is
\* not-a-number (below the threshold of a peaks-over-threshold distribution).
C3_SameCdfWhereDefined ==
    (dist.pc = "evaluated" /\ dist.ste.npeaks = 1) =>
        IF IsNaN(dist.peaks_cdf)
        THEN REq(dist.ste_cdf, <<0, 1>>)
        ELSE REq(dist.ste_cdf, dist.peaks_cdf)

\* C3 witness: n_peaks = 1 over a peaks-over-threshold distribution,
\* evaluated below its threshold.
C3_Witness ==
    /\ dist.pc = "evaluated"
    /\ dist.ste.npeaks = 1
    /\ dist.peaks.kind = "pot"
    /\ dist.q < dist.peaks.threshold
    /\ IsNaN(dist.peaks_cdf)

\* C4: the combiners built from weights w and from k*w (k > 0, sum(w) > 0)
\* have the same normalized weights, which sum to 1, and the same CDF; one
\* distribution with weight [1] gives that distribution's CDF.
C4_RescalingInvariant ==
    (lt.pc = "evaluated"
        /\ RLess(<<0, 1>>, RSum(lt.calls[1].weights_in, Len(lt.calls[1].weights_in)))) =>
        LET a == lt.calls[1]
            b == lt.calls[2]
        IN  /\ \A i \in 1 .. Len(a.weights) : REq(a.weights[i], b.weights[i])
            /\ REq(RSum(a.weights, Len(a.weights)), <<1, 1>>)
            /\ REq(RSum(b.weights, Len(b.weights)), <<1, 1>>)
            /\ REq(lt.cdfs[1], lt.cdfs[2])
            /\ (Len(lt.ste) = 1 /\ a.weights_in = <<(<<1, 1>>)>>) =>
                   REq(lt.cdfs[1], Rat(lt.ste[1][lt.q], CdfDen))

\* C4 witness: two distributions, weights [1,1] and [1/2,1/2], at a point
\* where the two distributions differ.
C4_Witness ==
    /\ lt.pc = "evaluated"
    /\ Len(lt.ste) = 2
    /\ lt.calls[1].weights_in = <<(<<1, 1>>), (<<1, 1>>)>>
    /\ lt.calls[2].weights_in = <<(<<1, 2>>), (<<1, 2>>)>>
    /\ lt.ste[1][lt.q] # lt.ste[2][lt.q]

\* C5 (as claimed): a call with len(ste) # len(weights) returns no
\* distribution.
C5_MismatchRejected ==
    \A c \in 1 .. Len(lt.calls) : Len(lt.calls[c].ste) = Len(lt.calls[c].weights_in)

\* C10: the peaks-over-threshold CDF is not-a-number below the threshold and
\* 1 - (n_exceed/n_total)*(1 - GPD_CDF(x - threshold)) from the threshold on,
\* n_exceed counting the peaks strictly above the threshold; at the threshold
\* it is 1 - n_exceed/n_total.
C10_PotCdf ==
    (dist.pc = "evaluated" /\ dist.peaks.kind = "pot") =>
        LET thr == dist.peaks.threshold
            nt == Len(dist.x)
            ne == Cardinality({j \in 1 .. Len(dist.x) : dist.x[j] > thr})
        IN  /\ dist.q < thr => IsNaN(dist.peaks_cdf)
            /\ dist.q >= thr =>
                  \* (1 - cdf) * nt * CdfDen = ne * (CdfDen - GPD(q - thr))
                  /\ ~IsNaN(dist.peaks_cdf)
                  /\ (dist.peaks_cdf[2] - dist.peaks_cdf[1]) * nt * CdfDen =
                         ne * (CdfDen - dist.peaks.pot[dist.q - thr]) * dist.peaks_cdf[2]
            /\ dist.q = thr => REq(dist.peaks_cdf, <<nt - ne, nt>>)

\* C10 witness: evaluated at the threshold, a peak lying exactly on the
\* threshold and some but not all peaks above it.
C10_Witness ==
    /\ dist.pc = "evaluated"
    /\ dist.peaks.kind = "pot"
    /\ dist.q = dist.peaks.threshold
    /\ \E j \in 1 .. Len(dist.x) : dist.x[j] = dist.peaks.threshold
    /\ dist.peaks.npot < dist.peaks.npeaks

\* C2 (as claimed): short_term_extreme, and ste, called with a method that
\* is none of the five names prints a message and returns None, raising
\* nothing.
C2_UnknownMethodReturnsNone ==
    (/\ stx.pc \in {"done", "raised"}
     /\ stx.method \notin DOMAIN peaks_methods
     /\ stx.method \notin DOMAIN blockmaxima_methods) =>
        /\ stx.printed
        /\ stx.pc = "done"
        /\ stx.ret.kind = "None"
        /\ stx.err = "none"

\* What is left of a call: the passes, the statements of the pass, and the
\* thresholds of the scan still to come.
Variant(a) ==
    <<a.max_refinement - a.i,
      CASE a.pc = "loop" -> 5 [] a.pc = "scan" -> 4 [] a.pc = "select" -> 3
        [] a.pc = "final" -> 2 [] OTHER -> 1,
      Len(a.thresholds) - a.j>>

LexLess(u, v) ==
    \/ u[1] < v[1]
    \/ u[1] = v[1] /\ u[2] < v[2]
    \/ u[1] = v[1] /\ u[2] = v[2] /\ u[3] < v[3]

\* C7: automatic_hs_threshold runs its pass body at most max_refinement
\* times, so that a pass is only ever under way with fewer than
\* max_refinement passes completed, and a scan moves through the enumerated
\* thresholds one by one, forwards, visiting none twice.  Every step lowers
\* the variant, so that no execution goes on for ever.
C7_AtMostMaxRefinementPasses ==
    /\ [](aht.pc # "idle" =>
            /\ aht.i <= aht.max_refinement
            /\ (aht.pc \in {"scan", "select"} => aht.i < aht.max_refinement)
            /\ aht.j <= Len(aht.thresholds)
            /\ aht.ncorr = aht.j)
    /\ [][/\ (aht.pc = "scan" /\ aht'.pc = "scan" => aht'.j = aht.j + 1)
          /\ aht'.i \in {aht.i, aht.i + 1}
          /\ (aht'.i = aht.i + 1 => aht.pc = "select")
          /\ aht.pc \in {"done", "raised"} => aht'.pc = aht.pc]_vars
    /\ [][LexLess(Variant(aht'), Variant(aht))]_vars

\* every pass was run and the call returned
C7_Witness ==
    /\ aht.pc = "done"
    /\ aht.max_refinement >= 2
    /\ aht.i = aht.max_refinement
    /\ Len(aht.thresholds) >= 2

\* the first enumerated threshold of the pass yields fewer than two
\* independent exceedances a year
LowestTooRare ==
    /\ aht.thresholds # <<>>
    /\ LET over == peaks_over_threshold(aht.peaks, At(aht.thresholds, 0),
                                        aht.den, aht.sampling_rate)
       IN  /\ over.err = "none"
           /\ Len(over.ret) * HoursPerYear
                < 2 * Len(aht.peaks) * aht.sampling_rate

C8_FractionsWithinUnitInterval ==
    aht.pc # "idle" =>
        /\ \A k \in 1 .. Len(aht.thresholds) :
              0 <= aht.thresholds[k] /\ aht.thresholds[k] <= aht.den
        /\ aht.pc = "final" =>
              percentile_ok(aht.best_threshold[1], aht.best_threshold[2])

\* C11: block_maxima returns, in block order, the largest sample of each of
\* the floor(t[-1]/t_st) blocks, block i holding the samples with
\* i*t_st <= t < (i+1)*t_st; the samples at or after the end of the last
\* whole block are dropped, so that changing their values changes nothing
\* of the result.
C11_BlocksAndDroppedTail ==
    bm.pc = "done" =>
        /\ bm.ret.err = "none" =>
              /\ Len(bm.ret.maxima) = Last(bm.t) \div bm.t_st
              /\ \A i \in 0 .. (Len(bm.ret.maxima) - 1) :
                    LET inblock == {j \in 1 .. Len(bm.t) :
                                      /\ i * bm.t_st <= bm.t[j]
                                      /\ bm.t[j] < (i + 1) * bm.t_st}
                    IN  /\ \E j \in inblock : bm.x[j] = At(bm.ret.maxima, i)
                        /\ \A j \in inblock : bm.x[j] <= At(bm.ret.maxima, i)
        /\ bm.ret2 = bm.ret

\* two whole blocks were returned and a sample of the dropped tail changed
C11_Witness ==
    /\ bm.pc = "done"
    /\ bm.ret.err = "none"
    /\ Len(bm.ret.maxima) >= 2
    /\ bm.x2 # bm.x
    /\ bm.ret.maxima[1] # bm.ret.maxima[2]

\* the arguments of the call break the type or shape contract
BadTypes ==
    IF val.fn = "automatic_hs_threshold"
    THEN \/ val.sampling_rate \notin {"float", "int", "bool"}
         \/ val.peaks # "ndarray"
         \/ val.max_refinement \notin {"int", "bool"}
    ELSE val.t # "ndarray" \/ val.data # "ndarray"

BadShape == val.fn = "automatic_hs_threshold" /\ val.range_len # 3

\* C12: a call that breaks the type or shape contract never starts its
\* computation and ends in an error: automatic_hs_threshold in TypeError for
\* a sampling_rate that is no float or int, peaks that is no array or a
\* max_refinement that is no int, in ValueError for an
\* initial_threshold_range whose length is not 3; global_peaks fails for a
\* t or data that is no array before upcrossing is called.
C12_RejectedBeforeComputation ==
    (val.pc # "idle" /\ (BadTypes \/ BadShape)) =>
        /\ ~val.computing
        /\ val.pc \notin {"body", "computing"}
        /\ val.pc = "raised" =>
              /\ (val.fn = "global_peaks" => val.err = "AssertionError")
              /\ (val.fn = "automatic_hs_threshold" /\ ~BadShape) =>
                    val.err = "TypeError"
              /\ (val.fn = "automatic_hs_threshold" /\ ~BadTypes) =>
                    val.err = "ValueError"
              /\ val.fn = "automatic_hs_threshold" =>
                    val.err \in {"TypeError", "ValueError"}

\* every check before the last was passed and the last one rejected the call
C12_Witness ==
    /\ val.pc = "raised"
    /\ val.fn = "automatic_hs_threshold"
    /\ val.max_refinement = "float"
    /\ val.sampling_rate = "float"
    /\ val.range_len = 3
    /\ val.err = "TypeError"

RECURSIVE Gcd(_, _)
Gcd(a, b) == IF b = 0 THEN a ELSE Gcd(b, a % b)

\* a fraction of positive denominator in lowest terms
InLowestTerms(r) ==
    LET g == Gcd(Abs(r[1]), r[2]) IN <<r[1] \div g, r[2] \div g>>

\* C13: return_year_value calls ppf exactly once, with 1 - p for
\* p = 1 / (return_year * 365.25*24 / short_term_period_hr), that is
\* short_term_period_hr / (8766 * return_year), and returns exactly what
\* ppf returned; return_year = 100 and short_term_period_hr = 1 give
\* p = 1/876600.
C13_PpfOnceAtOneMinusP ==
    /\ ryv.pc = "done" =>
          /\ Len(ryv.calls) = 1
          /\ InLowestTerms(ryv.calls[1])
               = InLowestTerms(<<8766 * ryv.return_year - ryv.short_term_period_hr,
                                8766 * ryv.return_year>>)
          /\ ryv.returned = <<ppf_call(ryv.ppf, ryv.calls[1])>>
          /\ ryv.ret = ryv.returned[1]
    /\ (ryv.pc \in {"p", "called", "done"} /\ ryv.return_year = 100
          /\ ryv.short_term_period_hr = 1) =>
          InLowestTerms(ryv.p) = <<1, 876600>>
    /\ ryv.pc \notin {"idle", "done"} => Len(ryv.calls) <= 1

\* the example of the claim has returned
C13_Witness ==
    /\ ryv.pc = "done"
    /\ ryv.return_year = 100
    /\ ryv.short_term_period_hr = 1
    /\ ryv.ppf = [a |-> 2, b |-> 1]
    /\ Len(ryv.calls) = 1

\* C14 (as claimed): no operation modifies an argument of its caller; after
\* mler_simulation called with the caller's parameters the dict holds what
\* it held before the call.
C14_ArgumentsUnchanged ==
    mler.pc # "idle" => mler.caller = mler.given

\* the autocorrelation of the peaks series, over that of lag 0, is below one
\* half at none of the lags 0..nlags the series has
NeverBelowHalf ==
    \A l \in 0 .. ((14 * 24) \div pot.sampling_rate) :
        l <= Len(pot.peaks) - 1 =>
            ~(acf(pot.peaks, 0) > 0 /\ 2 * acf(pot.peaks, l) < acf(pot.peaks, 0))

\* C15: when the normalized autocorrelation never drops below 0.5 within
\* nlags, _peaks_over_threshold does not reach its merge loop with some
\* fallback window and does not return a list: the call ends in an error.
C15_NoWindowIsAnError ==
    /\ [](pot.pc # "idle" /\ NeverBelowHalf =>
            /\ pot.pc \notin {"merge", "done"}
            /\ pot.ret = <<>>)
    /\ [][pot.pc = "window" /\ NeverBelowHalf =>
            pot'.pc = "raised" /\ pot'.err = "IndexError"]_vars

\* storm peaks were found and the window selection failed
C15_Witness ==
    /\ pot.pc = "raised"
    /\ pot.err = "IndexError"
    /\ pot.storm_peaks # <<>>
    /\ pot.independent_storm_peaks # <<>>
    /\ NeverBelowHalf

\* C16: after every step of the merge loop of _peaks_over_threshold the kept
\* indices are strictly increasing, two consecutive ones lie more than window
\* apart (a replacement of the last kept peak included), the kept values and
\* the kept indices are as many, and kept value k is
\* peaks[kept index k] - threshold_unit.
C16_KeptListInvariant ==
    pot.pc \in {"window", "merge", "done"} =>
        LET kept == pot.independent_storm_peaks
            kept_idx == pot.idx_independent_storm_peaks
        IN  /\ Len(kept) = Len(kept_idx)
            /\ Len(kept) >= 1
            /\ \A k \in 1 .. Len(kept_idx) :
                  /\ kept_idx[k] \in 0 .. (Len(pot.peaks) - 1)
                  /\ kept[k] = 2 * pot.den * pot.peaks[kept_idx[k] + 1]
                                 - pot.threshold_unit
            /\ pot.pc # "window" =>
                  \A k \in 1 .. (Len(kept_idx) - 1) :
                      /\ kept_idx[k] < kept_idx[k + 1]
                      /\ kept_idx[k + 1] - kept_idx[k] > pot.window

\* the loop appended the second storm peak and then replaced it by the third
C16_Witness ==
    /\ pot.pc = "merge"
    /\ pot.i = 3
    /\ pot.window >= 1
    /\ Len(pot.idx_independent_storm_peaks) = 2
    /\ pot.idx_storm_peaks[2] - pot.idx_storm_peaks[1] > pot.window
    /\ Last(pot.idx_independent_storm_peaks) = pot.idx_storm_peaks[3]

\* C17: for every pair (start, end) of consecutive crossing indices that
\* global_peaks uses, the returned peak value is the largest sample of data
\* over the indices start..end-1 and the returned peak time is t at the
\* first of those indices that attains it; there is one peak per pair and
\* the peak times are increasing.
C17_PeakIsIntervalMaximum ==
    gp.pc = "done" =>
        /\ Len(gp.peaks) = Len(gp.inds) - 1
        /\ Len(gp.t_peaks) = Len(gp.inds) - 1
        /\ \A k \in 1 .. (Len(gp.inds) - 1) :
              LET range == {i \in Idx(gp.data) : gp.inds[k] <= i /\ i < gp.inds[k + 1]}
              IN  /\ \A i \in range : At(gp.data, i) <= gp.peaks[k]
                  /\ \E i \in range :
                        /\ At(gp.data, i) = gp.peaks[k]
                        /\ At(gp.t, i) = gp.t_peaks[k]
                        /\ \A h \in range : h < i => At(gp.data, h) < gp.peaks[k]
        /\ \A k \in 1 .. (Len(gp.t_peaks) - 1) : gp.t_peaks[k] < gp.t_peaks[k + 1]

\* two peaks were returned, the later one the smaller
C17_Witness ==
    /\ gp.pc = "done"
    /\ Len(gp.peaks) = 2
    /\ gp.peaks[2] < gp.peaks[1]
    /\ gp.t_peaks[1] < gp.t_peaks[2]

RECURSIVE Pow10(_)
Pow10(k) == IF k = 0 THEN 1 ELSE 10 * Pow10(k - 1)

\* C18: with k the number of passes of automatic_hs_threshold completed
\* without stopping the search, range_step is the initial step over 10^k: it
\* shrinks tenfold with each such pass, never grows, and the pass that stops
\* early leaves it as it was.
C18_StepShrinksTenfold ==
    /\ [](aht.pc # "idle" =>
            (aht.range_step * 10) * Pow10(aht.i)
                = aht.initial_threshold_range[3] * aht.den)
    /\ [][/\ aht'.range_step * aht.den <= aht.range_step * aht'.den
          /\ aht'.pc = "final" =>
                (aht'.range_step = aht.range_step /\ aht'.den = aht.den)]_vars

\* one pass went on and the second stopped the search early
C18_Witness ==
    /\ aht.pc = "done"
    /\ aht.i = 1
    /\ aht.max_refinement = 3
    /\ aht.range_step * 100 = aht.initial_threshold_range[3] * aht.den

\* C19: a pass scans its thresholds in increasing order; the first whose rate
\* of independent exceedances is below 2 a year ends the scan unscored, and
\* with it every higher threshold, so that the scored thresholds are the
\* first ncorr candidates and the best index is that of a scored one.
C19_ScoredPrefix ==
    /\ [](aht.pc \in {"scan", "select"} =>
            /\ \A k \in 1 .. (Len(aht.thresholds) - 1) :
                  aht.thresholds[k] < aht.thresholds[k + 1]
            /\ aht.ncorr = aht.j
            /\ aht.ncorr <= Len(aht.thresholds)
            /\ aht.ncorr >= 1 => (0 <= aht.max_i /\ aht.max_i < aht.ncorr))
    /\ [][/\ (aht.pc = "scan" /\ aht.j < Len(aht.thresholds)) =>
                \/ aht'.pc = "raised"
                \/ IF aht'.n_over * 8766 < 2 * Len(aht.peaks) * aht.sampling_rate
                   THEN /\ aht'.pc = "select"
                        /\ aht'.ncorr = aht.ncorr
                        /\ aht'.j = aht.j
                   ELSE /\ aht'.pc = "scan"
                        /\ aht'.j = aht.j + 1
                        /\ aht'.ncorr = aht.ncorr + 1
          /\ (aht.pc = "select" /\ aht'.pc \in {"loop", "final"}) =>
                \E k \in 0 .. (aht.ncorr - 1) :
                    aht'.best_threshold = <<At(aht.thresholds, k), aht.den>>]_vars

\* a scan was ended by a threshold after two others had been scored, and the
\* best of the two was selected
C19_Witness ==
    /\ aht.pc = "loop"
    /\ aht.i >= 1
    /\ aht.ncorr >= 2
    /\ aht.ncorr < Len(aht.thresholds)
    /\ aht.max_i < aht.ncorr

\* the difference of line 267 between the best threshold of the pass, thr
\* over aht.den, and that of the pass before is below 0.0005
SmallChange(thr) ==
    2000 * Abs(aht.best_threshold[1] * (aht.den \div aht.best_threshold[2]) - thr)
        < aht.den

\* C20: the search stops early after a pass exactly when the best threshold
\* of the pass is within 0.0005 of that of the pass before and the pass is
\* not the last one allowed; the call then returns the best threshold of the
\* stopping pass and the Hazen percentile of the whole peaks sample at it.
C20_EarlyStop ==
    /\ [][(aht.pc = "select" /\ aht.ncorr >= 1) =>
            LET thr == At(aht.thresholds, aht.max_i)
            IN  /\ aht'.pc = "final" <=>
                      (SmallChange(thr) /\ aht.i < aht.max_refinement - 1)
                /\ aht'.pc # "final" => (aht'.pc = "loop" /\ aht'.i = aht.i + 1)
                /\ aht'.best_threshold = <<thr, aht.den>>]_vars
    /\ []((aht.pc = "done" /\ aht.i < aht.max_refinement) =>
            /\ aht.ret[1] = <<At(aht.thresholds, aht.max_i), aht.den>>
            /\ aht.ret[2] = hazen(aht.peaks, At(aht.thresholds, aht.max_i), aht.den))

\* the second pass chose the threshold of the first and stopped the search
C20_Witness ==
    /\ aht.pc = "done"
    /\ aht.i = 1
    /\ aht.max_refinement = 3
    /\ aht.ret[1][1] * 10 = aht.initial_threshold_range[1] * aht.ret[1][2]

\* C21 (as claimed): after a pass that does not stop the search the next
\* range, in the new step, is [previous candidate, next candidate) for an
\* interior best, [previous candidate, best + 5 steps) for a best that is the
\* last candidate scored in the pass, a scan cut short by the rate check
\* included, and [best - 9 steps, next candidate) for a best that is the
\* first candidate.
C21_RecentredOnLastScored ==
    (aht.pc = "loop" /\ aht.i >= 1 /\ aht.ncorr >= 2) =>
        LET best == At(aht.thresholds, aht.max_i)
        IN  IF aht.max_i = aht.ncorr - 1
            THEN /\ aht.range_min = 10 * At(aht.thresholds, aht.max_i - 1)
                 /\ aht.range_max = 10 * best + 5 * aht.range_step
            ELSE IF aht.max_i = 0
            THEN /\ aht.range_min = 10 * best - 9 * aht.range_step
                 /\ aht.range_max = 10 * At(aht.thresholds, 1)
            ELSE /\ aht.range_min = 10 * At(aht.thresholds, aht.max_i - 1)
                 /\ aht.range_max = 10 * At(aht.thresholds, aht.max_i + 1)

\* C21 (amended): the same three ranges, where "last" is the last candidate
\* enumerated in the pass: a best that is the last one scored of a scan the
\* rate check cut short is an interior candidate (or the first one), and the
\* next range ends at the candidate the scan stopped on.  A pass with one
\* enumerated candidate gives [best, best + 5 steps).
C21_RecentredOnLastEnumerated ==
    (aht.pc = "loop" /\ aht.i >= 1) =>
        LET n == Len(aht.thresholds)
            best == At(aht.thresholds, aht.max_i)
        IN  IF n = 1
            THEN /\ aht.range_min = 10 * best
                 /\ aht.range_max = 10 * best + 5 * aht.range_step
            ELSE IF aht.max_i = n - 1
            THEN /\ aht.range_min = 10 * At(aht.thresholds, n - 2)
                 /\ aht.range_max = 10 * best + 5 * aht.range_step
            ELSE IF aht.max_i = 0
            THEN /\ aht.range_min = 10 * best - 9 * aht.range_step
                 /\ aht.range_max = 10 * At(aht.thresholds, 1)
            ELSE /\ aht.range_min = 10 * At(aht.thresholds, aht.max_i - 1)
                 /\ aht.range_max = 10 * At(aht.thresholds, aht.max_i + 1)

\* A cut scan whose best is the last candidate scored, recentred as interior.
C21_Witness ==
    /\ aht.pc = "loop" /\ aht.i >= 1
    /\ aht.ncorr >= 2 /\ aht.ncorr < Len(aht.thresholds)
    /\ aht.max_i = aht.ncorr - 1
    /\ aht.range_max = 10 * At(aht.thresholds, aht.max_i + 1)
    /\ aht.range_min = 10 * At(aht.thresholds, aht.max_i - 1)

\* C22: the score of a candidate threshold is the probability-plot
\* correlation of the exceedance sample the independent-peak filter returned
\* for it, the sample the generalized Pareto was fitted to: the sample handed
\* to probplot (line 262) is the one handed to fit (line 260).
\* The fitted sample is kept in units of 1/Scale(den), the peaks in units of 1.
C22_ScoredOnExceedances ==
    (aht.pc \in {"scan", "select"} /\ aht.ncorr > 0) =>
        aht.fit_x = [k \in DOMAIN aht.probplot_x |->
                        Scale(aht.den) * aht.probplot_x[k]]

\* C23: the CDF of the distribution returned by ste_peaks at x is the peaks
\* CDF at x, a not-a-number value replaced by 0, to the power n_peaks; it is
\* never not-a-number, and it is 0 below the threshold of a
\* peaks-over-threshold distribution (n_peaks > 0).
C23_NanIsZeroThenPower ==
    dist.pc = "evaluated" =>
        /\ REq(dist.ste_cdf,
               RPow(IF IsNaN(dist.peaks_cdf) THEN <<0, 1>> ELSE dist.peaks_cdf,
                    dist.ste.npeaks))
        /\ ~IsNaN(dist.ste_cdf)
        /\ (dist.peaks.kind = "pot" /\ dist.q < dist.peaks.threshold) =>
               REq(dist.ste_cdf, <<0, 1>>)

\* Two short-term peaks over a peaks-over-threshold distribution, evaluated
\* below its threshold, where the peaks CDF is not-a-number.
C23_Witness ==
    /\ dist.pc = "evaluated"
    /\ dist.ste.npeaks = 2
    /\ dist.peaks.kind = "pot"
    /\ dist.q < dist.peaks.threshold
    /\ IsNaN(dist.peaks_cdf)
    /\ REq(dist.ste_cdf, <<0, 1>>)

\* C24: short_term_extreme dispatches on the method name.  A peak-based name
\* extracts the peaks with global_peaks, scales their number to
\* n_peaks = count * t_st / (t[-1] - t[0]), fits the estimator of that name
\* and returns ste_peaks(fit, n_peaks); a block-maxima name takes the maxima
\* of blocks of length t_st and returns the fit of that name itself, not
\* wrapped by ste_peaks; each of the five names has one estimator.
C24_Dispatch ==
    stx.pc = "done" =>
        LET g == global_peaks(stx.data)
            sample == [j \in 1 .. Len(g.peak_inds) |-> At(stx.data, g.peak_inds[j])]
            time == Last(stx.t) - At(stx.t, 0)
            ste_of(fit) ==
                /\ stx.ret.kind = "ste_peaks"
                /\ stx.ret.peaks = [fit |-> fit, sample |-> sample]
                /\ stx.ret.npeaks = Rat(Len(sample) * stx.t_st, time)
            maxima_of(fit) ==
                stx.ret = [kind |-> "block_maxima", fit |-> fit,
                           sample |-> block_maxima(stx.t, stx.data, stx.t_st).maxima]
        IN  \/ stx.method = "peaks_weibull"
               /\ ste_of("peaks_distribution_weibull")
            \/ stx.method = "peaks_weibull_tail_fit"
               /\ ste_of("peaks_distribution_weibull_tail_fit")
            \/ stx.method = "peaks_over_threshold"
               /\ ste_of("peaks_distribution_peaks_over_threshold")
            \/ stx.method = "block_maxima_gev"
               /\ maxima_of("ste_block_maxima_gev")
            \/ stx.method = "block_maxima_gumbel"
               /\ maxima_of("ste_block_maxima_gumbel")

\* A peak-based call that returned, over a series whose duration differs
\* from the short-term period.
C24_Witness ==
    /\ stx.pc = "done"
    /\ stx.method = "peaks_weibull_tail_fit"
    /\ stx.ret.kind = "ste_peaks"
    /\ Len(stx.ret.peaks.sample) >= 1
    /\ Last(stx.t) - At(stx.t, 0) = 2 /\ stx.t_st = 1
    /\ stx.ret.npeaks = Rat(Len(stx.peaks), 2)

\* C25: global_peaks never returns the final sample of the series as a peak:
\* the appended index len(data)-1 is only the exclusive end of the last
\* interval, also when the final sample is the largest after the last
\* up-crossing; a series without an up-crossing gives empty peak sequences.
C25_FinalSampleNeverPeak ==
    gp.pc = "done" =>
        /\ \A j \in 1 .. Len(gp.peak_inds) : gp.peak_inds[j] < Len(gp.data) - 1
        /\ \A j \in 1 .. Len(gp.t_peaks) : gp.t_peaks[j] < Last(gp.t)
        /\ upcrossing(gp.data) = <<>> =>
               gp.peak_inds = <<>> /\ gp.t_peaks = <<>> /\ gp.peaks = <<>>

\* A returned call whose final sample is larger than every sample from the
\* last up-crossing on, and larger than every returned peak.
C25_Witness ==
    /\ gp.pc = "done"
    /\ Len(gp.peaks) >= 1
    /\ \A j \in 1 .. Len(gp.peaks) : gp.peaks[j] < Last(gp.data)
    /\ \A i \in Idx(gp.data) :
          (Last(upcrossing(gp.data)) <= i /\ i < Len(gp.data) - 1) =>
              At(gp.data, i) < Last(gp.data)

\* C27: block_maxima assigns samples to blocks by absolute time measured from
\* 0: it returns normally exactly when every block i in
\* 0..floor(t[-1]/t_st)-1 holds a sample with i*t_st <= t < (i+1)*t_st, and
\* fails with an error when one of them is empty (t[0] >= t_st, or a gap
\* longer than t_st).
C27_EmptyBlockIsAnError ==
    bm.pc \in {"called", "done"} =>
        LET empty == {i \in 0 .. ((Last(bm.t) \div bm.t_st) - 1) :
                         ~ \E j \in 1 .. Len(bm.t) :
                               /\ i * bm.t_st <= bm.t[j]
                               /\ bm.t[j] < (i + 1) * bm.t_st}
        IN  IF empty = {}
            THEN bm.ret.err = "none"
            ELSE bm.ret.err = "ValueError" /\ bm.ret.maxima = <<>>

\* A series that starts a whole block after time 0 and has no gap: the call
\* failed.
C27_Witness ==
    /\ bm.pc = "called"
    /\ bm.t[1] >= bm.t_st
    /\ \A j \in 1 .. (Len(bm.t) - 1) : bm.t[j + 1] - bm.t[j] <= 1
    /\ Len(bm.t) >= 2
    /\ bm.ret.err = "ValueError"

\* The best threshold of the previous pass is among the candidates of this
\* pass that were scored.
BestScoredAgain(a) ==
    \E k \in 0 .. (a.ncorr - 1) :
        At(a.thresholds, k) * a.best_threshold[2] = a.best_threshold[1] * a.den

\* C26: (exact arithmetic) after every pass that does not stop the search the
\* best threshold of the pass satisfies range_min <= best < range_max for the
\* recentred range and lies on the grid of the next pass (best = range_min +
\* j * new step for an integer j >= 0), so that the next pass scans the
\* previous best again unless the rate check cuts its scan before it.
C26_BestScannedAgain ==
    [][/\ (aht'.pc = "loop" /\ aht'.i >= 1) =>
              LET best == 10 * aht'.best_threshold[1]
              IN  /\ aht'.range_min <= best /\ best < aht'.range_max
                  /\ (best - aht'.range_min) % aht'.range_step = 0
       /\ (aht.pc = "scan" /\ aht.i >= 1 /\ aht'.pc \in {"select", "raised"}) =>
              \/ BestScoredAgain(aht)
              \/ /\ aht'.pc = "select"
                 /\ rate_below_2(aht'.n_over, Len(aht.peaks), aht.sampling_rate)]_vars

\* The number of passes whose scan has started: an early stop leaves the
\* counter i at the stopping pass, an exhausted loop leaves it at
\* max_refinement.
PassesExecuted ==
    IF aht.i < aht.max_refinement THEN aht.i + 1 ELSE aht.max_refinement

\* C28: the first pass never triggers the early stop (best_threshold starts
\* at -1, at least 0.0005 away from every candidate in [0,1]): with
\* max_refinement >= 2 at least two passes are executed before a result is
\* returned, and with max_refinement = 1 exactly one pass is executed and its
\* best threshold is returned.
C28_FirstPassNeverStops ==
    (aht.pc \in {"final", "done"} /\ aht.max_refinement >= 1) =>
        /\ aht.max_refinement >= 2 => PassesExecuted >= 2
        /\ aht.max_refinement = 1 =>
              /\ PassesExecuted = 1
              /\ aht.best_threshold =
                     <<At(aht.thresholds, aht.max_i), 10>>
              /\ aht.pc = "done" => aht.ret[1] = aht.best_threshold

\* A call with max_refinement = 3 that returned after its second pass, the
\* first pass having chosen a candidate and gone on.
C28_Witness ==
    /\ aht.pc = "done"
    /\ aht.max_refinement = 3
    /\ PassesExecuted = 2
    /\ aht.ret[1] = aht.best_threshold

====
